---- MODULE Spec2Model ----
(***************************************************************************)
(* CashFlow 2026 (app.py): the ledger store (SQLite table outflow_items),  *)
(* the summary engine compute_summary, the drill-down filter and the       *)
(* import / save handlers of the Streamlit script.                         *)
(*                                                                         *)
(* Representation.                                                         *)
(*  - A text value is a sequence of tokens; the token " " is a run of      *)
(*    whitespace at an end of the text, every other token is a run of     *)
(*    characters that neither starts nor ends with whitespace, so          *)
(*    " Outflow " is <<" ", "Outflow", " ">> and str.strip() removes the   *)
(*    blank tokens at both ends. The typographic apostrophe of two         *)
(*    category names is written as an ASCII one.                           *)
(*  - A DataFrame cell is a record [k, n, s]: a number (k = "num", value   *)
(*    n), a text (k = "str", tokens s) or a null / NaN (k = "nan").        *)
(*  - A DataFrame is [columns, rows]: the set of its column labels and the *)
(*    sequence of its rows, each a function from column label to cell.     *)
(*  - Amounts are integers (floating point rounding is not modelled).      *)
(*  - A pandas Series over MONTHS is a function 1..12 -> Int.              *)
(***************************************************************************)
EXTENDS Integers, Sequences, FiniteSets, TLC

\* ------------------------------------------------------------------ bounds
\* the longest ledger the summary engine is given
MaxItems == 2

\* the longest frame imported or saved
MaxRows == 2

\* --------------------------------------------------------------- constants
MONTHS ==
    << "Jan/26", "Feb/26", "Mar/26", "Apr/26", "May/26", "Jun/26",
       "Jul/26", "Aug/26", "Sep/26", "Oct/26", "Nov/26", "Dec/26" >>

MonthIndex == 1..Len(MONTHS)

MonthSet == { MONTHS[i] : i \in MonthIndex }

INITIAL_BALANCE == 25542000

INFLOW_CATEGORIES ==
    << [category |-> "Football Revenues",
        subcategories |-> << "Awards", "Broadcast", "Matchday",
                             "Marketing & Commercial", "Sponsor", "Space Lease",
                             "Fan Program", "Licensing", "Merchandising",
                             "Social Medias" >>] >>

OUTFLOW_CATEGORIES ==
    << [category |-> "Payroll Men's Football",
        subcategories |-> << "Salary (M)", "Image Right", "Signing Fee (Image)",
                             "Payroll Taxes (M)", "Professional Services (M)",
                             "Merit Payments" >>],
       [category |-> "Payroll Youth & Women's Football",
        subcategories |-> << "Salary (YW)", "Payroll Taxes (YW)",
                             "Professional Services (YW)" >>],
       [category |-> "Payroll Corporate",
        subcategories |-> << "Salary (Corporate)", "Payroll Taxes (Corporate)",
                             "Professional Services (Corporate)" >>],
       [category |-> "Other Payroll Expenses",
        subcategories |-> << "Benefits" >>],
       [category |-> "Suppliers",
        subcategories |-> << "General Suppliers", "Matchday", "Matchday Suppliers",
                             "Logistics Expenses", "Utility Bills",
                             "Merchandising" >>],
       [category |-> "Taxes",
        subcategories |-> << "Football Specific Tribute (TEF)", "Other Taxes" >>] >>

\* list(d.keys()) of a taxonomy dict
CategoryKeys(taxonomy) == [i \in 1..Len(taxonomy) |-> taxonomy[i].category]

RECURSIVE Flatten(_)
Flatten(seqs) ==
    IF seqs = << >> THEN << >> ELSE Head(seqs) \o Flatten(Tail(seqs))

\* the subcategory lists of a taxonomy dict, concatenated in declaration order
SubcategoryValues(taxonomy) ==
    Flatten([i \in 1..Len(taxonomy) |-> taxonomy[i].subcategories])

Range(seq) == { seq[i] : i \in 1..Len(seq) }

CATEGORY_OPTIONS == CategoryKeys(INFLOW_CATEGORIES) \o CategoryKeys(OUTFLOW_CATEGORIES)

SUBCATEGORY_OPTIONS ==
    SubcategoryValues(INFLOW_CATEGORIES) \o SubcategoryValues(OUTFLOW_CATEGORIES)

\* ------------------------------------------------------------------- cells
Num(n) == [k |-> "num", n |-> n, s |-> << >>]
Txt(s) == [k |-> "str", n |-> 0, s |-> s]
NaN == [k |-> "nan", n |-> 0, s |-> << >>]

\* a Python str constant of the source, as a text cell / token sequence
Word(w) == << w >>

IsBlank(tok) == tok = " "

RECURSIVE LStrip(_)
LStrip(s) ==
    IF s # << >> /\ IsBlank(Head(s)) THEN LStrip(Tail(s)) ELSE s

RECURSIVE RStrip(_)
RStrip(s) ==
    IF s # << >> /\ IsBlank(s[Len(s)]) THEN RStrip(SubSeq(s, 1, Len(s) - 1)) ELSE s

\* str.strip()
Strip(s) == RStrip(LStrip(s))

\* str.casefold() of one token, for the tokens the inputs are drawn from
FoldToken(tok) ==
    CASE tok \in {"Inflow", "INFLOW", "inflow"} -> "inflow"
      [] tok \in {"Outflow", "OUTFLOW", "outflow"} -> "outflow"
      [] tok = "Other" -> "other"
      [] OTHER -> tok

\* str.casefold()
Casefold(s) == [i \in 1..Len(s) |-> FoldToken(s[i])]

\* Series.str.strip().str.casefold() on one cell: non-text cells give NaN
StripCasefoldCell(cell) ==
    IF cell.k = "str" THEN Txt(Casefold(Strip(cell.s))) ELSE NaN

\* the decimal texts pd.to_numeric parses, among the tokens of the inputs
NumericTokens == {"150000", "7"}

ParseToken(tok) == IF tok = "150000" THEN 150000 ELSE 7

\* pd.to_numeric(..., errors="coerce") on one cell
ToNumeric(cell) ==
    CASE cell.k = "num" -> cell
      [] cell.k = "str" /\ Len(cell.s) = 1 /\ cell.s[1] \in NumericTokens ->
            Num(ParseToken(cell.s[1]))
      [] OTHER -> NaN

\* .fillna(0.0) on one cell, as the number it then holds
FillNaZero(cell) == IF cell.k = "nan" THEN 0 ELSE cell.n

\* ------------------------------------------------------------------ series
\* pd.Series([f(1), ..., f(12)], index=MONTHS)
Series(f(_)) ==
    << f(1), f(2), f(3), f(4), f(5), f(6), f(7), f(8), f(9), f(10), f(11), f(12) >>

Zero(i) == 0

base_series == Series(Zero)

AddSeries(a, b) == LET f(i) == a[i] + b[i] IN Series(f)

SubSeries(a, b) == LET f(i) == a[i] - b[i] IN Series(f)

RECURSIVE SumSeries(_, _)
\* Python sum(iterable_of_series, start)
SumSeries(seq, start) ==
    IF seq = << >> THEN start ELSE SumSeries(Tail(seq), AddSeries(start, Head(seq)))

\* ----------------------------------------------------------- compute_summary
RequiredSummaryColumns == {"Tipo", "Categoria", "Subcategoria"} \cup MonthSet

\* lines 226-229: missing columns are added, filled with "", to the frame passed in
FillMissingColumns(df) ==
    IF RequiredSummaryColumns \subseteq df.columns
    THEN df
    ELSE [columns |-> df.columns \cup RequiredSummaryColumns,
          rows |-> [r \in 1..Len(df.rows) |->
                      [c \in df.columns \cup RequiredSummaryColumns |->
                          IF c \in df.columns THEN df.rows[r][c] ELSE Txt(<< >>)]]]

\* line 241: outflow_df[MONTHS].apply(pd.to_numeric, errors="coerce").fillna(0.0)
RowValues(row) ==
    LET f(i) == FillNaZero(ToNumeric(row[MONTHS[i]])) IN Series(f)

\* [Op(row) for row in rows], as a sequence
MapRows(rows, Op(_)) ==
    LET RECURSIVE from(_)
        from(r) == IF r > Len(rows) THEN << >> ELSE << Op(rows[r]) >> \o from(r + 1)
    IN  from(1)

MonthValues(df) == MapRows(df.rows, RowValues)

\* lines 242-243: outflow_df["Tipo"].str.strip().str.casefold() == direction
DirectionMask(df, direction) ==
    LET is(row) == StripCasefoldCell(row["Tipo"]) = Txt(Word(direction))
    IN  MapRows(df.rows, is)

SubcategoryMaskAnyDirection(df, direction_mask, subcategory) ==
    [r \in 1..Len(df.rows) |-> df.rows[r]["Subcategoria"] = Txt(Word(subcategory))]

\* lines 246, 250: direction mask & (outflow_df["Subcategoria"] == subcategory)
SubcategoryMask(df, direction_mask, subcategory) ==
    [r \in 1..Len(df.rows) |->
        /\ direction_mask[r]
        /\ df.rows[r]["Subcategoria"] = Txt(Word(subcategory))]

RECURSIVE MaskedSumFrom(_, _, _)
MaskedSumFrom(values, mask, r) ==
    IF r > Len(values) THEN base_series
    ELSE IF mask[r]
         THEN AddSeries(values[r], MaskedSumFrom(values, mask, r + 1))
         ELSE MaskedSumFrom(values, mask, r + 1)

\* values[mask].sum(axis=0)
MaskedSum(values, mask) == MaskedSumFrom(values, mask, 1)

\* dict[key] of a dict held as [keys, vals], two sequences of the same length
Get(dict, key) == dict.vals[CHOOSE j \in 1..Len(dict.keys) : dict.keys[j] = key]

\* lines 230-251: the per-direction dict subcategory name -> summed series
SubcategorySums(df, values, direction_mask, taxonomy) ==
    LET sum(name) == MaskedSum(values, SubcategoryMask(df, direction_mask, name))
    IN  [keys |-> SubcategoryValues(taxonomy),
         vals |-> MapRows(SubcategoryValues(taxonomy), sum)]

\* lines 253-266: the per-direction dict category -> sum of its subcategories
CategoryTotals(taxonomy, subsums) ==
    LET get(name) == Get(subsums, name)
        total(entry) == SumSeries(MapRows(entry.subcategories, get), base_series)
    IN  [keys |-> CategoryKeys(taxonomy), vals |-> MapRows(taxonomy, total)]

\* lines 267-268: sum(category_totals.values(), base_series.copy())
DirectionTotal(cattotals) == SumSeries(cattotals.vals, base_series)

NetSwapped(inflow_total, outflow_total) == SubSeries(outflow_total, inflow_total)

\* line 269
Net(inflow_total, outflow_total) == SubSeries(inflow_total, outflow_total)

RECURSIVE RunningFrom(_, _, _)
RunningFrom(net, i, running) ==
    IF i > Len(MONTHS) THEN << >>
    ELSE << running + net[i] >> \o RunningFrom(net, i + 1, running + net[i])

\* lines 271-275: the left-to-right scan of the running balance
Saldo(net) == RunningFrom(net, 1, INITIAL_BALANCE)

\* lines 280-283, 285-288: a category row followed by its subcategory rows
CategoryBlocks(taxonomy, cattotals, subsums) ==
    LET row(name) == [label |-> name, values |-> Get(subsums, name)]
        block(entry) ==
            << [label |-> entry.category, values |-> Get(cattotals, entry.category)] >>
            \o MapRows(entry.subcategories, row)
    IN  Flatten(MapRows(taxonomy, block))

\* lines 277-288: the list of (name, series) pairs
SummaryRows(df) ==
    LET values == MonthValues(df)
        inflow_mask == DirectionMask(df, "inflow")
        outflow_mask == DirectionMask(df, "outflow")
        insub == SubcategorySums(df, values, inflow_mask, INFLOW_CATEGORIES)
        outsub == SubcategorySums(df, values, outflow_mask, OUTFLOW_CATEGORIES)
        incat == CategoryTotals(INFLOW_CATEGORIES, insub)
        outcat == CategoryTotals(OUTFLOW_CATEGORIES, outsub)
        inflow_total == DirectionTotal(incat)
        outflow_total == DirectionTotal(outcat)
    IN  << [label |-> "SALDO ACUMULADO",
            values |-> Saldo(Net(inflow_total, outflow_total))],
           [label |-> "INFLOWS", values |-> inflow_total] >>
        \o CategoryBlocks(INFLOW_CATEGORIES, incat, insub)
        \o << [label |-> "OUTFLOWS", values |-> outflow_total] >>
        \o CategoryBlocks(OUTFLOW_CATEGORIES, outcat, outsub)

LabelOf(pair) == pair.label

\* lines 290-291: {name: values.values for name, values in rows}, as the rows of
\* the transposed frame: a dict keeps each key at the place of its first pair
\* and with the value of its last pair
DictRows(pairs) ==
    LET n == Len(pairs)
        name == MapRows(pairs, LabelOf)
        first(i) == \A j \in 1..(i - 1) : name[j] # name[i]
        later(i) == { m \in (i + 1)..n : name[m] = name[i] }
        last(i) == IF later(i) = {} THEN i
                   ELSE CHOOSE k \in later(i) : \A m \in later(i) : m <= k
        keys == SelectSeq([i \in 1..n |-> i], first)
    IN  [k \in 1..Len(keys) |->
            [label |-> name[keys[k]], values |-> pairs[last(keys[k])].values]]

\* compute_summary: the Report returned and the frame argument as it leaves it
compute_summary(outflow_df) ==
    [summary |-> DictRows(SummaryRows(FillMissingColumns(outflow_df))),
     frame |-> FillMissingColumns(outflow_df)]

\* ---------------------------------------------------------------- drill-down
\* lines 453-473: the rows of edited_items kept for the selected label
DrillDown(df, label) ==
    LET keep(row) ==
            IF label \in Range(CategoryKeys(INFLOW_CATEGORIES))
            THEN row["Categoria"] = Txt(Word(label))
            ELSE IF label \in Range(CategoryKeys(OUTFLOW_CATEGORIES))
            THEN row["Categoria"] = Txt(Word(label))
            ELSE IF label \in Range(SUBCATEGORY_OPTIONS)
            THEN row["Subcategoria"] = Txt(Word(label))
            ELSE IF label = "INFLOWS"
            THEN StripCasefoldCell(row["Tipo"]) = Txt(Word("inflow"))
            ELSE IF label = "OUTFLOWS"
            THEN StripCasefoldCell(row["Tipo"]) = Txt(Word("outflow"))
            ELSE TRUE
    IN  SelectSeq(df.rows, keep)

\* -------------------------------------------------------------- ledger store
\* A stored row of outflow_items is [entry_type, category, subcategory, item, m]:
\* four texts and the series m1..m12. The table is the sequence of its rows in
\* id order (AUTOINCREMENT ids grow with every insert, and nothing reads an id
\* but the ORDER BY of load_outflow_items).
StoredRow(entry_type, category, subcategory, item, m) ==
    [entry_type |-> entry_type, category |-> category,
     subcategory |-> subcategory, item |-> item, m |-> m]

FlatSeries(v) == LET f(i) == v IN Series(f)

\* lines 132-136
seed_items ==
    << StoredRow(Word("Outflow"), Word("Suppliers"), Word("Matchday"),
                 Word("Synergia"), FlatSeries(150000)),
       StoredRow(Word("Outflow"), Word("Suppliers"), Word("Matchday"),
                 Word("JP Rio"), FlatSeries(80000)) >>

\* the tokens of the stored texts, in byte order (SQLite's BINARY collation)
TokenOrder ==
    << " ", "Awards", "Football Revenues", "Inflow", "JP Rio", "Matchday",
       "Outflow", "Prize", "Suppliers", "Synergia", "nan" >>

TokenRank(tok) == CHOOSE i \in 1..Len(TokenOrder) : TokenOrder[i] = tok

RECURSIVE TextLess(_, _)
TextLess(a, b) ==
    IF a = << >> THEN b # << >>
    ELSE IF b = << >> THEN FALSE
    ELSE IF Head(a) = Head(b) THEN TextLess(Tail(a), Tail(b))
    ELSE TokenRank(Head(a)) < TokenRank(Head(b))

\* line 157: ORDER BY entry_type, category, subcategory, item (then id)
KeyLess(x, y) ==
    LET kx == << x.entry_type, x.category, x.subcategory, x.item >>
        ky == << y.entry_type, y.category, y.subcategory, y.item >>
    IN  \E i \in 1..4 :
            /\ \A j \in 1..(i - 1) : kx[j] = ky[j]
            /\ TextLess(kx[i], ky[i])

\* the place of the row at position i of the table in the result of the SELECT:
\* after the rows of smaller key and the rows of equal key and smaller id
OrderedPlace(rows, i) ==
    1 + Cardinality({ j \in 1..Len(rows) :
                        \/ KeyLess(rows[j], rows[i])
                        \/ (~KeyLess(rows[i], rows[j]) /\ j < i) })

\* lines 152-159: the rows the SELECT returns
SelectOrdered(rows) ==
    [p \in 1..Len(rows) |->
        rows[CHOOSE i \in 1..Len(rows) : OrderedPlace(rows, i) = p]]

TextColumns == {"Tipo", "Categoria", "Subcategoria", "Item"}

AllColumns == TextColumns \cup MonthSet

MonthOf(c) == CHOOSE i \in MonthIndex : MONTHS[i] = c

MakeRow(tipo, categoria, subcategoria, item, amounts) ==
    [c \in AllColumns |->
        CASE c = "Tipo" -> tipo
          [] c = "Categoria" -> categoria
          [] c = "Subcategoria" -> subcategoria
          [] c = "Item" -> item
          [] OTHER -> amounts[MonthOf(c)]]

\* lines 160-171: the frame load_outflow_items builds from the rows selected
FrameOfRows(rows) ==
    LET cells(row) ==
            MakeRow(Txt(row.entry_type), Txt(row.category), Txt(row.subcategory),
                    Txt(row.item), [i \in MonthIndex |-> Num(row.m[i])])
    IN  [columns |-> AllColumns, rows |-> MapRows(rows, cells)]

\* load_outflow_items on a table holding `rows`
load_outflow_items(rows) == FrameOfRows(SelectOrdered(rows))

\* .astype(str) on a cell of a text column (the frames hold texts and nulls there)
AsStr(cell) == IF cell.k = "str" THEN cell.s ELSE Word("nan")

\* line 175: df.dropna(subset=["Item"])
DropNaItem(rows) ==
    LET named(row) == row["Item"].k # "nan" IN SelectSeq(rows, named)


\* lines 175-194: the list `items` persist_outflow_items writes
PersistItems(df) ==
    LET tuple(row) ==
            StoredRow(Strip(AsStr(row["Tipo"])), Strip(AsStr(row["Categoria"])),
                      Strip(AsStr(row["Subcategoria"])), Strip(AsStr(row["Item"])),
                      RowValues(row))
    IN  MapRows(DropNaItem(df.rows), tuple)

DeleteNothing(rows) == rows

\* line 196: DELETE FROM outflow_items
DeleteAll(rows) == << >>

\* lines 137-146, 198-207: executemany INSERT
InsertMany(rows, items) == rows \o items

\* ------------------------------------------------------------------- inputs
Flat(v) == [i \in MonthIndex |-> Num(v)]

\* a hand-edited row: a non-numeric text, an empty cell, a numeric text, then
\* amounts that differ from month to month, one of them a refund
Mixed ==
    [i \in MonthIndex |->
        CASE i = 1 -> Txt(Word("abc"))
          [] i = 2 -> NaN
          [] i = 3 -> Txt(Word("150000"))
          [] i = 4 -> Num(0 - 5000)
          [] OTHER -> Num(i * 1000)]

\* the line items the summary engine is tried on: the seed item, an inflow
\* typed with blanks and in lower case, the row "Adicionar item" creates
\* (an outflow classified under an inflow subcategory) with an amount typed
\* in, and an item of neither direction
SummaryItems ==
    { MakeRow(Txt(Word("Outflow")), Txt(Word("Suppliers")), Txt(Word("Matchday")),
              Txt(Word("Synergia")), Flat(150000)),
      MakeRow(Txt(<<" ", "inflow", " ">>), Txt(Word("Football Revenues")),
              Txt(Word("Awards")), Txt(Word("Prize")), Mixed),
      MakeRow(Txt(Word("Outflow")), Txt(Word("Football Revenues")),
              Txt(Word("Awards")), Txt(<< >>), Flat(7000)),
      MakeRow(Txt(Word("Other")), Txt(Word("Other Payroll Expenses")),
              Txt(Word("Benefits")), Txt(Word("Health")), Flat(80000)) }

SeqsUpTo(S, n) == UNION { [1..k -> S] : k \in 0..n }

\* the column sets of the frames tried: complete, and lacking one or two columns
ColumnSets ==
    { AllColumns, AllColumns \ {"Tipo"}, AllColumns \ {"Subcategoria", "Jan/26"} }

Project(rows, columns) ==
    [r \in 1..Len(rows) |-> [c \in columns |-> rows[r][c]]]

InputFrames ==
    { [columns |-> cols, rows |-> Project(rows, cols)] :
        cols \in ColumnSets, rows \in SeqsUpTo(SummaryItems, MaxItems) }

\* -------------------------------------------------------------------- state
VARIABLES
    edited_items,     \* the frame st.data_editor returned (line 375)
    summary,          \* the Report of the last compute_summary call, << >> before
    selected_label,   \* the label of the selected Report row, "" when none
    filtered_items,   \* the rows the drill-down shows
    schema,           \* data.db: "none" (no table), "legacy" (a table of other
                      \* columns) or "current"
    table,            \* the committed rows of outflow_items, in id order
    journal,          \* the rows as the open write transaction has them
    lock,             \* the session whose connection holds the write lock
    pc,               \* per session: where its script run stands
    existing_tables,  \* per session: initialize_database's local (line 85)
    existing,         \* per session: initialize_database's local (line 130)
    session_state,    \* per session: st.session_state["outflow_items"], or Absent
    upload,           \* per session: the spreadsheet being applied, or NoFile
    persist_df,       \* per session: the frame passed to persist_outflow_items
    handler,          \* per session: the button handler that called persist
    message,          \* per session: what the run reported (st.error / st.success)
    last_saved,       \* history: the rows the last committed persist wrote
    writer,           \* history: the operation that last wrote to the table
    committed         \* history: the sessions that have committed a save

summaryVars == << edited_items, summary, selected_label, filtered_items >>

storeVars ==
    << schema, table, journal, lock, pc, existing_tables, existing, session_state,
       upload, persist_df, handler, message, last_saved, writer, committed >>

vars == << summaryVars, storeVars >>

Sessions == {"s1", "s2"}

NoSession == "-"

Absent == [columns |-> {}, rows |-> << >>]

NoFile == [columns |-> {}, rows |-> << >>]

NoFrame == [columns |-> {}, rows |-> << >>]

NeverSaved == [saved |-> FALSE, rows |-> << >>]

\* data.db before this version of the script ran: no file, or a table created
\* with other columns
StoreInit ==
    /\ edited_items = NoFrame
    /\ summary = << >>
    /\ selected_label = ""
    /\ filtered_items = << >>
    /\ schema \in {"none", "legacy"}
    /\ table = IF schema = "legacy" THEN << seed_items[1] >> ELSE << >>
    /\ journal = << >>
    /\ lock = NoSession
    /\ pc = [s \in Sessions |-> "idle"]
    /\ existing_tables = [s \in Sessions |-> FALSE]
    /\ existing = [s \in Sessions |-> 0]
    /\ session_state = [s \in Sessions |-> Absent]
    /\ upload = [s \in Sessions |-> NoFile]
    /\ persist_df = [s \in Sessions |-> NoFrame]
    /\ handler = [s \in Sessions |-> "none"]
    /\ message = [s \in Sessions |-> ""]
    /\ last_saved = NeverSaved
    /\ writer = "none"
    /\ committed = {}

\* the store part of the state while only the summary engine is exercised
StoreIdle ==
    /\ schema = "current"
    /\ table = seed_items
    /\ journal = << >>
    /\ lock = NoSession
    /\ pc = [s \in Sessions |-> "idle"]
    /\ existing_tables = [s \in Sessions |-> FALSE]
    /\ existing = [s \in Sessions |-> 0]
    /\ session_state = [s \in Sessions |-> Absent]
    /\ upload = [s \in Sessions |-> NoFile]
    /\ persist_df = [s \in Sessions |-> NoFrame]
    /\ handler = [s \in Sessions |-> "none"]
    /\ message = [s \in Sessions |-> ""]
    /\ last_saved = NeverSaved
    /\ writer = "none"
    /\ committed = {}

NoLabel == ""

Labels(report) == MapRows(report, LabelOf)

\* lines 406-473: the script from compute_summary to the drill-down, for the
\* editor's frame df and the selected label
ScriptTail(df, label) ==
    LET call == compute_summary(df)
    IN  /\ summary' = call.summary
        /\ edited_items' = call.frame
        /\ selected_label' = label
        /\ filtered_items' =
              IF label = NoLabel THEN << >> ELSE DrillDown(call.frame, label)
        /\ UNCHANGED storeVars

\* the frames the script passes: the editor's frame has every column
CompleteFrames == { df \in InputFrames : df.columns = AllColumns }

SummaryInit ==
    /\ edited_items \in CompleteFrames
    /\ summary = << >>
    /\ selected_label = NoLabel
    /\ filtered_items = << >>
    /\ StoreIdle

\* a rerun with no widget change
Rerun == ScriptTail(edited_items, selected_label)

\* the user adds a row in the data editor (num_rows="dynamic"), then the rerun
EditorAddRow(item) ==
    /\ Len(edited_items.rows) < MaxItems
    /\ ScriptTail([edited_items EXCEPT
                      !.rows = Append(@, [c \in edited_items.columns |-> item[c]])],
                  selected_label)

\* the user selects a row of the summary table (on_select="rerun")
SelectRow(label) ==
    /\ summary # << >>
    /\ label \in Range(Labels(summary))
    /\ label # selected_label
    /\ ScriptTail(edited_items, label)

\* the Report rows the selection is drawn from
SelectableLabels ==
    { "SALDO ACUMULADO", "INFLOWS", "OUTFLOWS", "Football Revenues", "Matchday" }

SummaryNext ==
    \/ Rerun
    \/ \E item \in SummaryItems : EditorAddRow(item)
    \/ \E label \in SelectableLabels : SelectRow(label)

SpecSummary == SummaryInit /\ [][SummaryNext]_vars

\* compute_summary called on any frame, also one that lacks expected columns
AnyFrameInit ==
    /\ edited_items \in InputFrames
    /\ summary = << >>
    /\ selected_label = NoLabel
    /\ filtered_items = << >>
    /\ StoreIdle

SpecAnyFrame == AnyFrameInit /\ [][SummaryNext]_vars

\* ------------------------------------------------------------ store: inputs
\* line items as the editor or a spreadsheet gives them to persist: the seed
\* item, an item typed with blanks around its texts and with cells that are not
\* numbers, and a row whose name cell is empty
StoreItems ==
    { MakeRow(Txt(Word("Outflow")), Txt(Word("Suppliers")), Txt(Word("Matchday")),
              Txt(Word("Synergia")), Flat(150000)),
      MakeRow(Txt(<<" ", "Inflow">>), Txt(Word("Football Revenues")),
              Txt(Word("Awards")), Txt(<<"Prize", " ">>), Mixed),
      MakeRow(Txt(Word("Outflow")), Txt(Word("Suppliers")), Txt(Word("Matchday")),
              NaN, Flat(7000)) }

StoreFrames ==
    { [columns |-> AllColumns, rows |-> rows] : rows \in SeqsUpTo(StoreItems, MaxRows) }

\* the spreadsheets uploaded: with the expected columns, with one more column,
\* and lacking a text column or a month column
FileColumnSets ==
    { AllColumns, AllColumns \cup {"Obs"}, AllColumns \ {"Item"},
      AllColumns \ {"Dec/26"} }

WithColumns(rows, columns) ==
    [r \in 1..Len(rows) |->
        [c \in columns |-> IF c \in AllColumns THEN rows[r][c] ELSE NaN]]

Files ==
    { [columns |-> cols, rows |-> WithColumns(rows, cols)] :
        cols \in FileColumnSets, rows \in SeqsUpTo(StoreItems, MaxRows) }

\* the ledger each of two concurrent sessions saves: rows of its own item
OwnItem(s) ==
    IF s = "s1"
    THEN MakeRow(Txt(Word("Outflow")), Txt(Word("Suppliers")), Txt(Word("Matchday")),
                 Txt(Word("Synergia")), Flat(150000))
    ELSE MakeRow(Txt(<<" ", "Inflow">>), Txt(Word("Football Revenues")),
                 Txt(Word("Awards")), Txt(<<"Prize", " ">>), Mixed)

OwnFrames(s) ==
    { [columns |-> AllColumns, rows |-> rows] : rows \in SeqsUpTo({OwnItem(s)}, MaxRows) }

\* ----------------------------------------------------------- store: actions
WriteAnyway(s) == TRUE

\* lines 79-80, 195-196: every call opens its own connection, and SQLite lets a
\* connection start writing only while no other holds the write lock
CanBeginWrite(s) == lock = NoSession

\* the locals of a run, as they are between runs
EndRun(s) ==
    /\ pc' = [pc EXCEPT ![s] = "idle"]
    /\ existing_tables' = [existing_tables EXCEPT ![s] = FALSE]
    /\ existing' = [existing EXCEPT ![s] = 0]
    /\ upload' = [upload EXCEPT ![s] = NoFile]
    /\ persist_df' = [persist_df EXCEPT ![s] = NoFrame]
    /\ handler' = [handler EXCEPT ![s] = "none"]

\* the page is opened anew: a new Streamlit session has an empty session_state
NewSession(s) ==
    /\ pc[s] = "idle"
    /\ session_state[s] # Absent
    /\ session_state' = [session_state EXCEPT ![s] = Absent]
    /\ message' = [message EXCEPT ![s] = ""]
    /\ UNCHANGED << summaryVars, schema, table, journal, lock, pc, existing_tables,
                    existing, upload, persist_df, handler, last_saved, writer,
                    committed >>

\* a script run starts (a first visit, a widget event)
BeginRun(s) ==
    /\ pc[s] = "idle"
    /\ pc' = [pc EXCEPT ![s] = "check"]
    /\ message' = [message EXCEPT ![s] = ""]
    /\ UNCHANGED << summaryVars, schema, table, journal, lock, existing_tables,
                    existing, session_state, upload, persist_df, handler,
                    last_saved, writer, committed >>

\* lines 85-103: the table is looked up; one that lacks a required column is dropped
InitCheck(s) ==
    /\ pc[s] = "check"
    /\ schema = "legacy" => CanBeginWrite(s)
    /\ existing_tables' = [existing_tables EXCEPT ![s] = (schema = "current")]
    /\ schema' = IF schema = "legacy" THEN "none" ELSE schema
    /\ table' = IF schema = "legacy" THEN << >> ELSE table
    /\ writer' = IF schema = "legacy" THEN "schema" ELSE writer
    /\ pc' = [pc EXCEPT ![s] = "create"]
    /\ UNCHANGED << summaryVars, journal, lock, existing, session_state, upload,
                    persist_df, handler, message, last_saved, committed >>

\* lines 105-128: CREATE TABLE when the lookup found none; it raises when another
\* session has created the table since
InitCreate(s) ==
    /\ pc[s] = "create"
    /\ (~existing_tables[s] /\ schema = "none") => CanBeginWrite(s)
    /\ IF existing_tables[s]
       THEN /\ pc' = [pc EXCEPT ![s] = "count"]
            /\ UNCHANGED << schema, existing_tables, existing, upload, persist_df,
                            handler, message >>
       ELSE IF schema = "none"
       THEN /\ schema' = "current"
            /\ pc' = [pc EXCEPT ![s] = "count"]
            /\ UNCHANGED << existing_tables, existing, upload, persist_df,
                            handler, message >>
       ELSE /\ EndRun(s)
            /\ message' = [message EXCEPT ![s] = "exception"]
            /\ UNCHANGED schema
    /\ UNCHANGED << summaryVars, table, journal, lock, session_state, last_saved,
                    writer, committed >>

\* line 130: SELECT COUNT(*)
InitCount(s) ==
    /\ pc[s] = "count"
    /\ existing' = [existing EXCEPT ![s] = Len(table)]
    /\ pc' = [pc EXCEPT ![s] = "seed"]
    /\ UNCHANGED << summaryVars, schema, table, journal, lock, existing_tables,
                    session_state, upload, persist_df, handler, message,
                    last_saved, writer, committed >>

\* lines 131-147: the seed items are inserted when the count was 0
InitSeed(s) ==
    /\ pc[s] = "seed"
    /\ existing[s] = 0 => CanBeginWrite(s)
    /\ table' = IF existing[s] = 0 THEN InsertMany(table, seed_items) ELSE table
    /\ writer' = IF existing[s] = 0 THEN "seed" ELSE writer
    /\ pc' = [pc EXCEPT ![s] = "session"]
    /\ UNCHANGED << summaryVars, schema, journal, lock, existing_tables, existing,
                    session_state, upload, persist_df, handler, message,
                    last_saved, committed >>

\* lines 301-302
SessionInit(s) ==
    /\ pc[s] = "session"
    /\ session_state' =
          IF session_state[s] = Absent
          THEN [session_state EXCEPT ![s] = load_outflow_items(table)]
          ELSE session_state
    /\ pc' = [pc EXCEPT ![s] = "handler"]
    /\ UNCHANGED << summaryVars, schema, table, journal, lock, existing_tables,
                    existing, upload, persist_df, handler, message, last_saved,
                    writer, committed >>

\* a run in which no button of the store was pressed
NoButton(s) ==
    /\ pc[s] = "handler"
    /\ EndRun(s)
    /\ UNCHANGED << summaryVars, schema, table, journal, lock, session_state,
                    message, last_saved, writer, committed >>

\* line 325-326
HasExpectedColumns(imported) == AllColumns \subseteq imported.columns

\* line 332
SelectExpectedColumns(imported) ==
    [columns |-> AllColumns,
     rows |-> [r \in 1..Len(imported.rows) |->
                 [c \in AllColumns |-> imported.rows[r][c]]]]

ImportKeepingRejected(imported, current) ==
    IF HasExpectedColumns(imported)
    THEN [accepted |-> TRUE, frame |-> SelectExpectedColumns(imported)]
    ELSE [accepted |-> FALSE, frame |-> imported]

\* lines 325-334: whether the spreadsheet is accepted, and the frame the session
\* holds afterwards
ImportOutcome(imported, current) ==
    IF HasExpectedColumns(imported)
    THEN [accepted |-> TRUE, frame |-> SelectExpectedColumns(imported)]
    ELSE [accepted |-> FALSE, frame |-> current]

\* lines 316-335: "Aplicar planilha", up to the call of persist_outflow_items
ApplyImport(s, file) ==
    LET outcome == ImportOutcome(file, session_state[s])
    IN  /\ pc[s] = "handler"
        /\ upload' = [upload EXCEPT ![s] = file]
        /\ session_state' = [session_state EXCEPT ![s] = outcome.frame]
        /\ IF outcome.accepted
           THEN /\ persist_df' = [persist_df EXCEPT ![s] = outcome.frame]
                /\ handler' = [handler EXCEPT ![s] = "import"]
                /\ pc' = [pc EXCEPT ![s] = "delete"]
                /\ UNCHANGED message
           ELSE /\ message' = [message EXCEPT ![s] = "missing columns"]
                /\ pc' = [pc EXCEPT ![s] = "finish"]
                /\ UNCHANGED << persist_df, handler >>
        /\ UNCHANGED << summaryVars, schema, table, journal, lock, existing_tables,
                        existing, last_saved, writer, committed >>

\* lines 401-402: "Salvar alteracoes", up to the call of persist_outflow_items
SaveClicked(s, edited) ==
    /\ pc[s] = "handler"
    /\ persist_df' = [persist_df EXCEPT ![s] = edited]
    /\ handler' = [handler EXCEPT ![s] = "save"]
    /\ pc' = [pc EXCEPT ![s] = "delete"]
    /\ UNCHANGED << summaryVars, schema, table, journal, lock, existing_tables,
                    existing, session_state, upload, message, last_saved, writer,
                    committed >>

\* lines 195-196: the DELETE opens the write transaction
PersistDelete(s) ==
    /\ pc[s] = "delete"
    /\ CanBeginWrite(s)
    /\ lock' = s
    /\ journal' = DeleteAll(IF lock = NoSession THEN table ELSE journal)
    /\ pc' = [pc EXCEPT ![s] = "insert"]
    /\ UNCHANGED << summaryVars, schema, table, existing_tables, existing,
                    session_state, upload, persist_df, handler, message,
                    last_saved, writer, committed >>

\* lines 197-207
PersistInsert(s) ==
    /\ pc[s] = "insert"
    /\ journal' =
          IF PersistItems(persist_df[s]) # << >>
          THEN InsertMany(journal, PersistItems(persist_df[s]))
          ELSE journal
    /\ pc' = [pc EXCEPT ![s] = "commit"]
    /\ UNCHANGED << summaryVars, schema, table, lock, existing_tables, existing,
                    session_state, upload, persist_df, handler, message,
                    last_saved, writer, committed >>

\* line 208, then lines 336 or 403-404
PersistCommit(s) ==
    /\ pc[s] = "commit"
    /\ table' = journal
    /\ journal' = << >>
    /\ lock' = NoSession
    /\ last_saved' = [saved |-> TRUE, rows |-> PersistItems(persist_df[s])]
    /\ writer' = "persist"
    /\ committed' = committed \cup {s}
    /\ session_state' =
          IF handler[s] = "save"
          THEN [session_state EXCEPT ![s] = persist_df[s]]
          ELSE session_state
    /\ message' = [message EXCEPT ![s] =
                      IF handler[s] = "save" THEN "saved" ELSE "imported"]
    /\ pc' = [pc EXCEPT ![s] = "finish"]
    /\ UNCHANGED << summaryVars, schema, existing_tables, existing, upload,
                    persist_df, handler >>

\* the rest of the run (the summary and the drill-down) leaves the store alone
FinishRun(s) ==
    /\ pc[s] = "finish"
    /\ EndRun(s)
    /\ UNCHANGED << summaryVars, schema, table, journal, lock, session_state,
                    message, last_saved, writer, committed >>

\* the statement the run is about to execute writes to the database
AboutToWrite(s) ==
    \/ pc[s] = "check" /\ schema = "legacy"
    \/ pc[s] = "create" /\ ~existing_tables[s] /\ schema = "none"
    \/ pc[s] = "seed" /\ existing[s] = 0
    \/ pc[s] = "delete"

\* sqlite3.OperationalError (database is locked): the write lock stayed with
\* another connection for the whole busy timeout, and the run ends there
Busy(s) ==
    /\ AboutToWrite(s)
    /\ ~CanBeginWrite(s)
    /\ EndRun(s)
    /\ message' = [message EXCEPT ![s] = "exception"]
    /\ UNCHANGED << summaryVars, schema, table, journal, lock, session_state,
                    last_saved, writer, committed >>

\* one session using the store
StoreNext ==
    \/ NewSession("s1")
    \/ BeginRun("s1")
    \/ InitCheck("s1")
    \/ InitCreate("s1")
    \/ InitCount("s1")
    \/ InitSeed("s1")
    \/ SessionInit("s1")
    \/ NoButton("s1")
    \/ \E file \in Files : ApplyImport("s1", file)
    \/ \E edited \in StoreFrames : SaveClicked("s1", edited)
    \/ PersistDelete("s1")
    \/ PersistInsert("s1")
    \/ PersistCommit("s1")
    \/ FinishRun("s1")

SpecStore == StoreInit /\ [][StoreNext]_vars

\* two sessions, each saving its own ledger
SessionsNext ==
    \E s \in Sessions :
        \/ BeginRun(s)
        \/ InitCheck(s)
        \/ InitCreate(s)
        \/ InitCount(s)
        \/ InitSeed(s)
        \/ SessionInit(s)
        \/ NoButton(s)
        \/ \E edited \in OwnFrames(s) : SaveClicked(s, edited)
        \/ PersistDelete(s)
        \/ PersistInsert(s)
        \/ PersistCommit(s)
        \/ FinishRun(s)
        \/ Busy(s)

SpecSessions == StoreInit /\ [][SessionsNext]_vars

\* ===================================================== summary engine claims
Row(report, label) ==
    report[CHOOSE k \in 1..Len(report) : report[k].label = label].values

HeaderLabels == {"SALDO ACUMULADO", "INFLOWS", "OUTFLOWS"} \cup Range(CATEGORY_OPTIONS)

\* the rows listed under the row at position p: those up to the next category
\* or total row
ListedUnder(report, p) ==
    { q \in (p + 1)..Len(report) :
        \A m \in (p + 1)..q : report[m].label \notin HeaderLabels }

RECURSIVE SumOver(_, _, _)
SumOver(report, positions, i) ==
    IF positions = {} THEN 0
    ELSE LET q == CHOOSE x \in positions : TRUE
         IN  report[q].values[i] + SumOver(report, positions \ {q}, i)

\* C1: in the Report, every category row equals, month by month, the sum of the
\* subcategory rows listed under it.
C1_CategoryEqualsListedRows ==
    summary # << >> =>
        \A p \in 1..Len(summary) :
            summary[p].label \in Range(CATEGORY_OPTIONS) =>
                \A i \in MonthIndex :
                    summary[p].values[i] = SumOver(summary, ListedUnder(summary, p), i)

TaxonomyLabels(taxonomy) ==
    Flatten([c \in 1..Len(taxonomy) |->
                << taxonomy[c].category >> \o taxonomy[c].subcategories])

ExpectedLabels ==
    << "SALDO ACUMULADO", "INFLOWS" >> \o TaxonomyLabels(INFLOW_CATEGORIES)
    \o << "OUTFLOWS" >> \o TaxonomyLabels(OUTFLOW_CATEGORIES)

\* C2: the Report's rows are the balance row, the inflow total, every inflow
\* category followed by one row per subcategory, the outflow total, every outflow
\* category followed by one row per subcategory, in declaration order.
C2_RowSequence ==
    summary # << >> => Labels(summary) = ExpectedLabels

RECURSIVE NetUpTo(_, _)
NetUpTo(report, i) ==
    IF i = 0 THEN 0
    ELSE Row(report, "INFLOWS")[i] - Row(report, "OUTFLOWS")[i] + NetUpTo(report, i - 1)

\* C3: the running balance at month i is INITIAL_BALANCE plus the sum over the
\* months up to i of INFLOWS - OUTFLOWS of the same Report; for an empty ledger it
\* is INITIAL_BALANCE in all 12 months.
C3_RunningBalance ==
    summary # << >> =>
        /\ \A i \in MonthIndex :
              Row(summary, "SALDO ACUMULADO")[i] = INITIAL_BALANCE + NetUpTo(summary, i)
        /\ edited_items.rows = << >> =>
              \A i \in MonthIndex : Row(summary, "SALDO ACUMULADO")[i] = INITIAL_BALANCE

\* a Report of a ledger with inflows that differ from month to month and outflows
C3_Witness ==
    /\ summary # << >>
    /\ Row(summary, "INFLOWS")[5] # Row(summary, "INFLOWS")[6]
    /\ Row(summary, "INFLOWS")[4] < 0
    /\ Row(summary, "OUTFLOWS")[1] > 0
    /\ Row(summary, "SALDO ACUMULADO")[12] # INITIAL_BALANCE

DirectionOf(row) ==
    IF row["Tipo"].k = "str" THEN Casefold(Strip(row["Tipo"].s)) ELSE << >>

\* the item's subcategory is listed in the taxonomy of the item's own direction
Recognized(row) ==
    \/ /\ DirectionOf(row) = Word("inflow")
       /\ \E name \in Range(SubcategoryValues(INFLOW_CATEGORIES)) :
             row["Subcategoria"] = Txt(Word(name))
    \/ /\ DirectionOf(row) = Word("outflow")
       /\ \E name \in Range(SubcategoryValues(OUTFLOW_CATEGORIES)) :
             row["Subcategoria"] = Txt(Word(name))

\* C4: adding an item whose subcategory is not listed under its direction, or
\* whose direction is neither inflow nor outflow, leaves every value of the Report
\* unchanged.
C4_UnrecognizedItemIgnored ==
    [][ ( /\ summary # << >>
          /\ Len(edited_items'.rows) = Len(edited_items.rows) + 1
          /\ SubSeq(edited_items'.rows, 1, Len(edited_items.rows)) = edited_items.rows
          /\ ~Recognized(edited_items'.rows[Len(edited_items'.rows)]) )
        => summary' = summary ]_vars

\* a Report of a ledger whose last item is unrecognized and has amounts, next to
\* a recognized item
C4_Witness ==
    /\ summary # << >>
    /\ Len(edited_items.rows) >= 2
    /\ Recognized(edited_items.rows[1])
    /\ ~Recognized(edited_items.rows[Len(edited_items.rows)])
    /\ edited_items.rows[Len(edited_items.rows)]["Feb/26"] = Num(7000)
    /\ Row(summary, "OUTFLOWS")[2] = 150000

\* C7: a call of compute_summary leaves the collection passed to it unchanged.
C7_ArgumentUnchanged ==
    [][ (Len(edited_items'.rows) = Len(edited_items.rows))
        => edited_items' = edited_items ]_vars

RECURSIVE ColumnSum(_, _)
ColumnSum(rows, month) ==
    IF rows = << >> THEN 0
    ELSE FillNaZero(ToNumeric(Head(rows)[month])) + ColumnSum(Tail(rows), month)

\* C10: for a selected total, category or subcategory row, the amounts of the
\* items the drill-down shows add up, month by month, to the values of that row.
C10_DrillDownMatchesRow ==
    (selected_label # NoLabel /\ selected_label # "SALDO ACUMULADO") =>
        \A i \in MonthIndex :
            ColumnSum(filtered_items, MONTHS[i]) = Row(summary, selected_label)[i]

\* ======================================================= ledger store claims
Count(seq, x) == Cardinality({ i \in 1..Len(seq) : seq[i] = x })

SameItems(a, b) ==
    /\ Len(a) = Len(b)
    /\ \A x \in Range(a) \cup Range(b) : Count(a, x) = Count(b, x)

Amounts(row) == [i \in MonthIndex |-> FillNaZero(ToNumeric(row[MONTHS[i]]))]

\* a row of a frame as a line item: its classification and name as they are and
\* its 12 amounts, a cell that is no number counting as zero
LineItem(row) ==
    << row["Tipo"], row["Categoria"], row["Subcategoria"], row["Item"], Amounts(row) >>

\* the same with the four texts converted to text and stripped of the blanks
\* around them
StrippedLineItem(row) ==
    << Txt(Strip(AsStr(row["Tipo"]))), Txt(Strip(AsStr(row["Categoria"]))),
       Txt(Strip(AsStr(row["Subcategoria"]))), Txt(Strip(AsStr(row["Item"]))),
       Amounts(row) >>

Named(row) == row["Item"].k # "nan"

\* a session has just returned from persist_outflow_items(persist_df[s])
JustPersisted(s) == pc[s] = "finish" /\ handler[s] # "none"

\* C5 as stated: after persist_outflow_items(c) a load returns exactly the line
\* items of c.
C5_LoadReturnsGiven ==
    \A s \in Sessions :
        JustPersisted(s) =>
            SameItems(MapRows(load_outflow_items(table).rows, LineItem),
                      MapRows(persist_df[s].rows, LineItem))

\* C5 amended: after persist_outflow_items(c) a load returns exactly the line
\* items of c that have a name, each with its four texts stripped, and no row
\* stored before.
C5_LoadReturnsCleaned ==
    \A s \in Sessions :
        JustPersisted(s) =>
            SameItems(MapRows(load_outflow_items(table).rows, LineItem),
                      MapRows(SelectSeq(persist_df[s].rows, Named), StrippedLineItem))

\* a frame with an unnamed row and a row typed with blanks has just been
\* persisted over a table that held other rows
C5_Witness ==
    /\ JustPersisted("s1")
    /\ Len(persist_df["s1"].rows) = 2
    /\ ~Named(persist_df["s1"].rows[1])
    /\ persist_df["s1"].rows[2]["Item"] = Txt(<<"Prize", " ">>)
    /\ Len(table) = 1
    /\ table[1].item = Word("Prize")

RequiredImportColumns ==
    { "Tipo", "Categoria", "Subcategoria", "Item", "Jan/26", "Feb/26", "Mar/26",
      "Apr/26", "May/26", "Jun/26", "Jul/26", "Aug/26", "Sep/26", "Oct/26",
      "Nov/26", "Dec/26" }

\* C6: applying a spreadsheet that lacks a required column reports an error and
\* leaves the session's ledger and the stored table as they were.
C6_RejectedImportChangesNothing ==
    [][ \A s \in Sessions :
          ( /\ pc[s] = "handler"
            /\ upload'[s] # NoFile
            /\ ~(RequiredImportColumns \subseteq upload'[s].columns) )
          => ( /\ message'[s] = "missing columns"
               /\ pc'[s] = "finish"
               /\ session_state'[s] = session_state[s]
               /\ table' = table
               /\ journal' = journal ) ]_vars

\* a spreadsheet with rows but without a month column has just been rejected in a
\* session that holds a ledger
C6_Witness ==
    /\ pc["s1"] = "finish"
    /\ message["s1"] = "missing columns"
    /\ "Dec/26" \notin upload["s1"].columns
    /\ upload["s1"].rows # << >>
    /\ session_state["s1"].rows # << >>
    /\ session_state["s1"].rows # upload["s1"].rows
    /\ table # << >>

\* C8: while the last write to the table is a committed save, the table holds
\* exactly the rows of that save: no rows of another save, none missing.
C8_LastSaveWins ==
    writer = "persist" => table = last_saved.rows

\* both sessions have committed a save, the table holds the later one and the
\* other session is saving again
C8_Witness ==
    /\ committed = Sessions
    /\ writer = "persist"
    /\ table # << >>
    /\ table = last_saved.rows
    /\ lock # NoSession
    /\ \E s \in Sessions : pc[s] = "delete" /\ lock # s

\* C9: once a ledger has been saved, initialize_database never changes the stored
\* rows: the table holds what the last persist_outflow_items wrote.
C9_SavedLedgerKept ==
    last_saved.saved => table = last_saved.rows

====
